---- MODULE Spec2Model ----
(***************************************************************************)
(* SourceInfo: the weighted scoring engine (api/scoring.py), the           *)
(* counternarrative selection over the sources table (api/database.py),    *)
(* the endpoints over them (api/routes) and the content analysis.          *)
(*                                                                         *)
(* Numbers.  Scores are Python floats / SQLite REALs.  A score is held     *)
(* here as an integer count of twentieths of a point (Pts(80) is 80.0),    *)
(* which represents exactly both the quarter-point grid the inputs are     *)
(* drawn from and the one-decimal grid round(x, 1) produces.               *)
(*                                                                         *)
(* Optional values.  Python's None is the empty tuple and a present value  *)
(* v is the one-element tuple <<v>>.  A dict is a function whose DOMAIN is *)
(* the set of keys it holds.                                               *)
(***************************************************************************)
EXTENDS Integers, Sequences, FiniteSets, TLC

VARIABLES repo, op, args, ret, pc, usage_log, calls, locals, settings

\* The state of a content-analysis request (api/routes/content.py): where the
\* handler stands, the rows of api_usage_log, the calls made so far, the
\* handler's local values and the configuration.
contentVars == <<pc, usage_log, calls, locals, settings>>

vars == <<repo, op, args, ret, contentVars>>

\* No content-analysis request is under way.
NoContentRequest ==
    /\ pc = "idle"
    /\ usage_log = <<>>
    /\ calls = <<>>
    /\ locals = <<>>
    /\ settings = <<>>

None == <<>>
Some(v) == <<v>>

Pts(n) == n * 20

\* A quarter-point value: q quarters of a point.
Quarters(q) == q * 5

Abs(n) == IF n < 0 THEN -n ELSE n

Min(a, b) == IF a <= b THEN a ELSE b

Max(a, b) == IF a >= b THEN a ELSE b

\* dict.get(key): the value, or None when the key is missing.
DictGet(d, k) == IF k \in DOMAIN d THEN d[k] ELSE None

\* dict.get(key, default)
DictGetDefault(d, k, default) == IF k \in DOMAIN d THEN d[k] ELSE default

\* round(x, 1): to the nearest tenth of a point; a tie (x.x5 exactly, which on
\* the quarter grid is an exactly represented float) goes to the even tenth.
Round1(x) ==
    LET lo == (x \div 2) * 2
        r == x - lo
    IN IF r = 0 THEN x
       ELSE IF (lo \div 2) % 2 = 0 THEN lo ELSE lo + 2

(***************************************************************************)
(* api/scoring.py                                                          *)
(***************************************************************************)

get_credibility_tier_strict(score) ==
    IF score = None THEN "unknown"
    ELSE IF score[1] > Pts(80) THEN "high"
    ELSE IF score[1] > Pts(60) THEN "medium"
    ELSE "low"

get_credibility_tier(score) ==
    IF score = None THEN "unknown"
    ELSE IF score[1] >= Pts(80) THEN "high"
    ELSE IF score[1] >= Pts(60) THEN "medium"
    ELSE "low"

\* "if not source_type": None and the empty string are both falsy.
Falsy(s) == s = None \/ s = Some("")

calculate_type_bonus_flat(source_type, claim_type) ==
    IF Falsy(source_type) THEN 0
    ELSE IF source_type = Some("fact_check") THEN Pts(10)
    ELSE IF source_type \in {Some("think_tank"), Some("think_tank___policy_group")}
         THEN Pts(5)
    ELSE IF source_type = Some("wire_service") THEN Pts(5)
    ELSE IF source_type = Some("trade_publication") THEN Pts(3)
    ELSE 0

calculate_type_bonus(source_type, claim_type) ==
    IF Falsy(source_type) THEN 0
    ELSE IF source_type = Some("fact_check") THEN Pts(10)
    ELSE IF source_type \in {Some("think_tank"), Some("think_tank___policy_group")}
         THEN IF claim_type \in {"political", "economic", "foreign_policy"}
              THEN Pts(5)
              ELSE Pts(2)
    ELSE IF source_type = Some("wire_service") THEN Pts(5)
    ELSE IF source_type = Some("trade_publication") THEN Pts(3)
    ELSE 0

calculate_bias_penalty_partisan(political_lean, evidence_role) ==
    IF political_lean = None THEN 0
    ELSE IF evidence_role = "counternarrative" THEN 0
    ELSE IF Abs(political_lean[1]) = 2 THEN -Pts(10)
    ELSE IF Abs(political_lean[1]) = 1 THEN -Pts(5)
    ELSE 0

calculate_bias_penalty_signed(political_lean, evidence_role) ==
    IF political_lean = None THEN 0
    ELSE IF evidence_role = "counternarrative" THEN 0
    ELSE IF evidence_role \in {"support", "refute"} THEN 0
    ELSE IF evidence_role = "neutral" /\ political_lean[1] = 2 THEN -Pts(10)
    ELSE IF evidence_role = "neutral" /\ political_lean[1] = 1 THEN -Pts(5)
    ELSE 0

calculate_bias_penalty(political_lean, evidence_role) ==
    IF political_lean = None THEN 0
    ELSE IF evidence_role = "counternarrative" THEN 0
    ELSE IF evidence_role \in {"support", "refute"} THEN 0
    ELSE IF evidence_role = "neutral" /\ Abs(political_lean[1]) = 2 THEN -Pts(10)
    ELSE IF evidence_role = "neutral" /\ Abs(political_lean[1]) = 1 THEN -Pts(5)
    ELSE 0

\* {-2: "Left", ...}.get(political_lean, "Unknown")
lean_label(political_lean) ==
    IF political_lean = None THEN "Unknown"
    ELSE CASE political_lean[1] = -2 -> "Left"
           [] political_lean[1] = -1 -> "Lean Left"
           [] political_lean[1] = 0 -> "Center"
           [] political_lean[1] = 1 -> "Lean Right"
           [] political_lean[1] = 2 -> "Right"
           [] OTHER -> "Unknown"

\* max(0, min(100, weighted_score))
ClampNoCeiling(x) == Max(0, x)

Clamp(x) == Max(0, Min(Pts(100), x))

\* One clause of the explanation; the clauses are joined with "; ".
Clause(kind, num, text) == [clause |-> kind, num |-> num, text |-> text]

\* "base_credibility or 50": None and 0 are both falsy.
OrFifty(base_credibility) ==
    IF base_credibility = None \/ base_credibility[1] = 0
    THEN Pts(50)
    ELSE base_credibility[1]

calculate_weighted_score_falsy_base(base_credibility, source_type, political_lean, claim_type, evidence_role) ==
    LET start == OrFifty(base_credibility)
        type_bonus == calculate_type_bonus(source_type, claim_type)
        bias_penalty == calculate_bias_penalty(political_lean, evidence_role)
        weighted_score == Clamp(start + type_bonus + bias_penalty)
    IN [weighted_score |-> weighted_score,
        breakdown |-> [credibility_score |-> OrFifty(base_credibility),
                       bias_penalty |-> bias_penalty,
                       type_bonus |-> type_bonus,
                       explanation |-> <<>>]]

\* calculate_weighted_score appending the bias-penalty clause before the
\* type-bonus clause.
calculate_weighted_score_penalty_first(base_credibility, source_type, political_lean, claim_type, evidence_role) ==
    LET start == IF base_credibility = None THEN Pts(50) ELSE base_credibility[1]
        explanation == IF base_credibility = None
                       THEN Clause("no_rating", Pts(50), "")
                       ELSE Clause("base", base_credibility[1], "")
        type_bonus == calculate_type_bonus(source_type, claim_type)
        bias_penalty == calculate_bias_penalty(political_lean, evidence_role)
        weighted_score == Clamp(start + type_bonus + bias_penalty)
        parts1 == <<explanation>>
        parts2 == IF bias_penalty < 0
                  THEN Append(parts1, Clause("bias_penalty", bias_penalty,
                                             lean_label(political_lean)))
                  ELSE parts1
        parts3 == IF type_bonus > 0
                  THEN Append(parts2, Clause("type_bonus", type_bonus, source_type[1]))
                  ELSE parts2
        parts4 == IF evidence_role = "counternarrative"
                  THEN Append(parts3, Clause("counternarrative", 0,
                                             lean_label(political_lean)))
                  ELSE parts3
    IN [weighted_score |-> weighted_score,
        breakdown |-> [credibility_score |-> OrFifty(base_credibility),
                       bias_penalty |-> bias_penalty,
                       type_bonus |-> type_bonus,
                       explanation |-> parts4]]

calculate_weighted_score(base_credibility, source_type, political_lean, claim_type, evidence_role) ==
    LET start == IF base_credibility = None THEN Pts(50) ELSE base_credibility[1]
        explanation == IF base_credibility = None
                       THEN Clause("no_rating", Pts(50), "")
                       ELSE Clause("base", base_credibility[1], "")
        type_bonus == calculate_type_bonus(source_type, claim_type)
        bias_penalty == calculate_bias_penalty(political_lean, evidence_role)
        weighted_score == Clamp(start + type_bonus + bias_penalty)
        parts1 == <<explanation>>
        parts2 == IF type_bonus > 0
                  THEN Append(parts1, Clause("type_bonus", type_bonus, source_type[1]))
                  ELSE parts1
        parts3 == IF bias_penalty < 0
                  THEN Append(parts2, Clause("bias_penalty", bias_penalty,
                                             lean_label(political_lean)))
                  ELSE parts2
        parts4 == IF evidence_role = "counternarrative"
                  THEN Append(parts3, Clause("counternarrative", 0,
                                             lean_label(political_lean)))
                  ELSE parts3
    IN [weighted_score |-> weighted_score,
        breakdown |-> [credibility_score |-> OrFifty(base_credibility),
                       bias_penalty |-> bias_penalty,
                       type_bonus |-> type_bonus,
                       explanation |-> parts4]]

\* Without the final else the function falls off its end and returns None,
\* written "None" here.
get_recommendation_falls_through(weighted_score, credibility_tier) ==
    IF credibility_tier = "unknown" THEN "use_with_caution"
    ELSE IF weighted_score >= Pts(80) THEN "strong"
    ELSE IF weighted_score >= Pts(60) THEN "acceptable"
    ELSE IF weighted_score >= Pts(40) THEN "use_with_caution"
    ELSE "None"

get_recommendation_tier_blind(weighted_score, credibility_tier) ==
    IF weighted_score >= Pts(80) THEN "strong"
    ELSE IF weighted_score >= Pts(60) THEN "acceptable"
    ELSE IF weighted_score >= Pts(40) THEN "use_with_caution"
    ELSE "not_recommended"

get_recommendation(weighted_score, credibility_tier) ==
    IF credibility_tier = "unknown" THEN "use_with_caution"
    ELSE IF weighted_score >= Pts(80) THEN "strong"
    ELSE IF weighted_score >= Pts(60) THEN "acceptable"
    ELSE IF weighted_score >= Pts(40) THEN "use_with_caution"
    ELSE "not_recommended"

\* "if context:": None and the empty dict are both falsy.
ContextGiven(context) == context # None /\ DOMAIN context[1] # {}

score_source_for_context_weighted_tier(source, context) ==
    LET claim_type == IF ContextGiven(context)
                      THEN DictGetDefault(context[1], "claim_type", "general")
                      ELSE "general"
        evidence_role == IF ContextGiven(context)
                         THEN DictGetDefault(context[1], "evidence_role", "neutral")
                         ELSE "neutral"
        scored == calculate_weighted_score(DictGet(source, "newsguard_score"),
                                           DictGet(source, "source_type"),
                                           DictGet(source, "political_lean"),
                                           claim_type, evidence_role)
        tier == get_credibility_tier(Some(scored.weighted_score))
    IN [weighted_score |-> Round1(scored.weighted_score),
        scoring_breakdown |-> scored.breakdown,
        recommendation |-> get_recommendation(scored.weighted_score, tier),
        credibility_tier |-> tier]

score_source_for_context(source, context) ==
    LET claim_type == IF ContextGiven(context)
                      THEN DictGetDefault(context[1], "claim_type", "general")
                      ELSE "general"
        evidence_role == IF ContextGiven(context)
                         THEN DictGetDefault(context[1], "evidence_role", "neutral")
                         ELSE "neutral"
        scored == calculate_weighted_score(DictGet(source, "newsguard_score"),
                                           DictGet(source, "source_type"),
                                           DictGet(source, "political_lean"),
                                           claim_type, evidence_role)
        tier == get_credibility_tier(DictGet(source, "newsguard_score"))
    IN [weighted_score |-> Round1(scored.weighted_score),
        scoring_breakdown |-> scored.breakdown,
        recommendation |-> get_recommendation(scored.weighted_score, tier),
        credibility_tier |-> tier]

(***************************************************************************)
(* The scoring engine as a state machine: each step is one call of one of  *)
(* the functions of api/scoring.py, applied to one input; op, args and ret *)
(* hold the call and what it returned.  The functions are pure, so a       *)
(* behaviour is one call from the idle state.                              *)
(***************************************************************************)

\* How far outside [0, 100] the scores handed to the scorer may lie.
ScoreOvershoot == 20

\* The largest |political_lean| handed to the scorer (the scale ends at 2).
MaxLeanInput == 3

\* Every quarter-point score in [0, 100].
GridScores == {Quarters(q) : q \in 0..400}

\* The scores the five-argument calls are tried on: the points at and next to
\* the boundaries 0, 40, 60, 80 and 100 and those that an adjustment of
\* 2, 3, 5 or 10 points carries onto or across one, some quarter-point values,
\* and one value on each side outside [0, 100].
ScoreSamples ==
    {Pts(p) : p \in {0, 1, 5, 9, 10, 35, 39, 40, 45, 50, 55, 59, 60, 65, 70, 75, 78,
                     79, 80, 85, 90, 95, 98, 100}}
    \cup {Quarters(q) : q \in {1, 159, 281, 319, 399}}
    \cup {-Pts(ScoreOvershoot), Pts(100 + ScoreOvershoot)}

ScoreInputs == {None} \cup {Some(s) : s \in ScoreSamples}

SourceTypeInputs ==
    {None} \cup {Some(t) : t \in {"", "fact_check", "think_tank",
                                  "think_tank___policy_group", "wire_service",
                                  "trade_publication", "news_media"}}

LeanInputs == {None} \cup {Some(l) : l \in -MaxLeanInput..MaxLeanInput}

ClaimTypes == {"political", "economic", "foreign_policy", "scientific", "general"}

EvidenceRoles == {"support", "refute", "neutral", "counternarrative"}

Tiers == {"high", "medium", "low", "unknown"}

Recommendations == {"strong", "acceptable", "use_with_caution", "not_recommended"}

\* The context dicts: any subset of the two keys, each with a value of its
\* enumeration.
ContextDicts ==
    UNION {{d \in [K -> ClaimTypes \cup EvidenceRoles] :
               /\ "claim_type" \in K => d["claim_type"] \in ClaimTypes
               /\ "evidence_role" \in K => d["evidence_role"] \in EvidenceRoles} :
           K \in SUBSET {"claim_type", "evidence_role"}}

ContextInputs == {None} \cup {Some(d) : d \in ContextDicts}

SourceKeys == {"newsguard_score", "source_type", "political_lean"}

\* A source dict holding the keys K, with these values for the keys it holds.
SourceDict(K, newsguard_score, source_type, political_lean) ==
    [k \in K |-> CASE k = "newsguard_score" -> newsguard_score
                   [] k = "source_type" -> source_type
                   [] k = "political_lean" -> political_lean]

\* The key sets a source dict with these values is tried with: a key whose
\* value is None may also be missing.
KeySets(newsguard_score, source_type, political_lean) ==
    {K \in SUBSET SourceKeys :
        /\ newsguard_score # None => "newsguard_score" \in K
        /\ source_type # None => "source_type" \in K
        /\ political_lean # None => "political_lean" \in K}

ScoreInit ==
    /\ repo = <<>>
    /\ op = "idle"
    /\ args = <<>>
    /\ ret = <<>>
    /\ NoContentRequest

GetCredibilityTier ==
    /\ op = "idle"
    /\ \E score \in {None} \cup {Some(s) : s \in GridScores} :
        /\ op' = "get_credibility_tier"
        /\ args' = [score |-> score]
        /\ ret' = get_credibility_tier(score)
        /\ UNCHANGED <<repo, contentVars>>

CalculateTypeBonus ==
    /\ op = "idle"
    /\ \E source_type \in SourceTypeInputs, claim_type \in ClaimTypes :
        /\ op' = "calculate_type_bonus"
        /\ args' = [source_type |-> source_type, claim_type |-> claim_type]
        /\ ret' = calculate_type_bonus(source_type, claim_type)
        /\ UNCHANGED <<repo, contentVars>>

CalculateBiasPenalty ==
    /\ op = "idle"
    /\ \E political_lean \in LeanInputs, evidence_role \in EvidenceRoles :
        /\ op' = "calculate_bias_penalty"
        /\ args' = [political_lean |-> political_lean, evidence_role |-> evidence_role]
        /\ ret' = calculate_bias_penalty(political_lean, evidence_role)
        /\ UNCHANGED <<repo, contentVars>>

CalculateWeightedScore ==
    /\ op = "idle"
    /\ \E base_credibility \in ScoreInputs, source_type \in SourceTypeInputs,
       political_lean \in LeanInputs, claim_type \in ClaimTypes,
       evidence_role \in EvidenceRoles :
        /\ op' = "calculate_weighted_score"
        /\ args' = [base_credibility |-> base_credibility,
                    source_type |-> source_type,
                    political_lean |-> political_lean,
                    claim_type |-> claim_type,
                    evidence_role |-> evidence_role]
        /\ ret' = calculate_weighted_score(base_credibility, source_type,
                                           political_lean, claim_type, evidence_role)
        /\ UNCHANGED <<repo, contentVars>>

GetRecommendation ==
    /\ op = "idle"
    /\ \E weighted_score \in GridScores, credibility_tier \in Tiers :
        /\ op' = "get_recommendation"
        /\ args' = [weighted_score |-> weighted_score,
                    credibility_tier |-> credibility_tier]
        /\ ret' = get_recommendation(weighted_score, credibility_tier)
        /\ UNCHANGED <<repo, contentVars>>

ScoreSourceForContext ==
    /\ op = "idle"
    /\ \E newsguard_score \in ScoreInputs, source_type \in SourceTypeInputs,
       political_lean \in LeanInputs, context \in ContextInputs :
        \E K \in KeySets(newsguard_score, source_type, political_lean) :
            LET source == SourceDict(K, newsguard_score, source_type, political_lean)
            IN /\ op' = "score_source_for_context"
               /\ args' = [source |-> source, context |-> context]
               /\ ret' = score_source_for_context(source, context)
               /\ UNCHANGED <<repo, contentVars>>

ScoreNext ==
    \/ GetCredibilityTier
    \/ CalculateTypeBonus
    \/ CalculateBiasPenalty
    \/ CalculateWeightedScore
    \/ GetRecommendation
    \/ ScoreSourceForContext

ScoreSpec == ScoreInit /\ [][ScoreNext]_vars

(***************************************************************************)
(* Properties of the scoring engine, checked under ScoreSpec.              *)
(***************************************************************************)

\* C1: for every base credibility (in or outside [0, 100], or absent), source
\* type, lean, claim type and evidence role, the weighted score returned by
\* calculate_weighted_score and by score_source_for_context lies in [0, 100].
C1_WeightedScoreInRange ==
    op \in {"calculate_weighted_score", "score_source_for_context"} =>
        /\ ret.weighted_score >= 0
        /\ ret.weighted_score <= Pts(100)

\* A 98-point fact checker: 98 + 10 is cut back to 100.
C1_ClampedAtCeiling ==
    /\ op = "calculate_weighted_score"
    /\ args.base_credibility = Some(Pts(98))
    /\ args.source_type = Some("fact_check")
    /\ args.evidence_role = "counternarrative"
    /\ ret.weighted_score = Pts(100)

\* C2: the weighted score of calculate_weighted_score is
\* clamp(Base + type_bonus + bias_penalty, 0, 100), with Base the score when
\* one is present (a present 0 included) and 50 when it is absent; a score of
\* 70 with lean 2, type fact_check and role neutral gives 70.  The score that
\* score_source_for_context reports is that value rounded to one decimal.
C2_WeightedScoreIsClampedSum ==
    /\ op = "calculate_weighted_score" =>
        LET base == IF args.base_credibility = None
                    THEN Pts(50)
                    ELSE args.base_credibility[1]
            raw == base + calculate_type_bonus(args.source_type, args.claim_type)
                        + calculate_bias_penalty(args.political_lean,
                                                 args.evidence_role)
        IN /\ ret.weighted_score =
                  (IF raw < 0 THEN 0 ELSE IF raw > Pts(100) THEN Pts(100) ELSE raw)
           /\ ret.breakdown.type_bonus =
                  calculate_type_bonus(args.source_type, args.claim_type)
           /\ ret.breakdown.bias_penalty =
                  calculate_bias_penalty(args.political_lean, args.evidence_role)
    /\ ( /\ op = "calculate_weighted_score"
         /\ args.base_credibility = Some(Pts(70))
         /\ args.political_lean = Some(2)
         /\ args.source_type = Some("fact_check")
         /\ args.evidence_role = "neutral" ) => ret.weighted_score = Pts(70)
    /\ op = "score_source_for_context" =>
        LET score == DictGet(args.source, "newsguard_score")
            base == IF score = None THEN Pts(50) ELSE score[1]
            raw == base + ret.scoring_breakdown.type_bonus
                        + ret.scoring_breakdown.bias_penalty
        IN ret.weighted_score =
               Round1(IF raw < 0 THEN 0 ELSE IF raw > Pts(100) THEN Pts(100) ELSE raw)

\* A present score of 0 is the base: 0 + 10 for a fact checker is 10.
C2_ZeroScoreIsTheBase ==
    /\ op = "calculate_weighted_score"
    /\ args.base_credibility = Some(0)
    /\ args.source_type = Some("fact_check")
    /\ args.political_lean = None
    /\ ret.weighted_score = Pts(10)

\* C3: calculate_bias_penalty is 0 when the lean is absent or the role is
\* counternarrative, support or refute; for the role neutral it is -10 when
\* |lean| = 2, -5 when |lean| = 1 and 0 when lean = 0; it is always in [-10, 0].
C3_BiasPenaltyTable ==
    op = "calculate_bias_penalty" =>
        LET lean == args.political_lean
            role == args.evidence_role
        IN /\ (lean = None \/ role \in {"counternarrative", "support", "refute"})
                  => ret = 0
           /\ (lean # None /\ role = "neutral") =>
                  /\ Abs(lean[1]) = 2 => ret = -Pts(10)
                  /\ Abs(lean[1]) = 1 => ret = -Pts(5)
                  /\ lean[1] = 0 => ret = 0
           /\ ret >= -Pts(10)
           /\ ret <= 0

C3_LeftNeutralPenalised ==
    /\ op = "calculate_bias_penalty"
    /\ args.political_lean = Some(-2)
    /\ args.evidence_role = "neutral"
    /\ ret = -Pts(10)

\* C4: the bias penalty does not depend on the sign of the lean: the penalty
\* returned for a lean l under the role neutral is the penalty of -l, and a
\* source scored under any context gets the weighted score and the
\* recommendation of the source that differs from it only in the sign of the lean.
C4_PenaltySymmetricInSign ==
    /\ ( /\ op = "calculate_bias_penalty"
         /\ args.political_lean # None
         /\ args.evidence_role = "neutral" ) =>
            ret = calculate_bias_penalty(Some(-args.political_lean[1]), "neutral")
    /\ ( /\ op = "score_source_for_context"
         /\ DictGet(args.source, "political_lean") # None ) =>
            LET mirrored == [args.source EXCEPT
                                !["political_lean"] = Some(-args.source["political_lean"][1])]
                other == score_source_for_context(mirrored, args.context)
            IN /\ ret.weighted_score = other.weighted_score
               /\ ret.recommendation = other.recommendation

\* A Right source scored as neutral evidence is penalised (as its Left mirror is).
C4_RightSourcePenalised ==
    /\ op = "score_source_for_context"
    /\ DictGet(args.source, "political_lean") = Some(2)
    /\ args.context = None
    /\ ret.scoring_breakdown.bias_penalty = -Pts(10)

\* C5: calculate_type_bonus is 0 for an absent type, 10 for fact_check under
\* every claim type, 5 for a think tank (either spelling) under a political,
\* economic or foreign_policy claim and 2 under any other, 5 for wire_service,
\* 3 for trade_publication and 0 for every other type; it is always in [0, 10].
C5_TypeBonusTable ==
    op = "calculate_type_bonus" =>
        LET type == args.source_type
            claim == args.claim_type
        IN /\ type = None => ret = 0
           /\ type = Some("fact_check") => ret = Pts(10)
           /\ type \in {Some("think_tank"), Some("think_tank___policy_group")} =>
                  ret = (IF claim \in {"political", "economic", "foreign_policy"}
                         THEN Pts(5)
                         ELSE Pts(2))
           /\ type = Some("wire_service") => ret = Pts(5)
           /\ type = Some("trade_publication") => ret = Pts(3)
           /\ type \notin {Some("fact_check"), Some("think_tank"),
                           Some("think_tank___policy_group"), Some("wire_service"),
                           Some("trade_publication")} => ret = 0
           /\ ret >= 0
           /\ ret <= Pts(10)

C5_ThinkTankGeneralBonus ==
    /\ op = "calculate_type_bonus"
    /\ args.source_type = Some("think_tank___policy_group")
    /\ args.claim_type = "scientific"
    /\ ret = Pts(2)

\* C6: the recommendation is use_with_caution when the tier is unknown,
\* whatever the weighted score; for any other tier it is strong from 80,
\* acceptable from 60, use_with_caution from 40 and not_recommended below 40.
\* A source with no score, lean or type gets 50 and use_with_caution; a score
\* of 90 with lean -1, type news_media and role neutral gets 85 and strong.
C6_RecommendationTable ==
    /\ op = "get_recommendation" =>
        IF args.credibility_tier = "unknown" THEN ret = "use_with_caution"
        ELSE /\ args.weighted_score >= Pts(80) => ret = "strong"
             /\ (args.weighted_score >= Pts(60) /\ args.weighted_score < Pts(80))
                    => ret = "acceptable"
             /\ (args.weighted_score >= Pts(40) /\ args.weighted_score < Pts(60))
                    => ret = "use_with_caution"
             /\ args.weighted_score < Pts(40) => ret = "not_recommended"
    /\ op = "score_source_for_context" =>
        IF ret.credibility_tier = "unknown" THEN ret.recommendation = "use_with_caution"
        ELSE /\ ret.weighted_score >= Pts(80) => ret.recommendation = "strong"
             /\ (ret.weighted_score >= Pts(60) /\ ret.weighted_score < Pts(80))
                    => ret.recommendation = "acceptable"
             /\ (ret.weighted_score >= Pts(40) /\ ret.weighted_score < Pts(60))
                    => ret.recommendation = "use_with_caution"
             /\ ret.weighted_score < Pts(40) => ret.recommendation = "not_recommended"
    /\ ( /\ op = "score_source_for_context"
         /\ DictGet(args.source, "newsguard_score") = None
         /\ DictGet(args.source, "political_lean") = None
         /\ DictGet(args.source, "source_type") = None ) =>
            /\ ret.weighted_score = Pts(50)
            /\ ret.recommendation = "use_with_caution"
    /\ ( /\ op = "score_source_for_context"
         /\ DictGet(args.source, "newsguard_score") = Some(Pts(90))
         /\ DictGet(args.source, "political_lean") = Some(-1)
         /\ DictGet(args.source, "source_type") = Some("news_media")
         /\ ~ContextGiven(args.context) ) =>
            /\ ret.weighted_score = Pts(85)
            /\ ret.recommendation = "strong"

\* An unrated source: its 50 points would be use_with_caution by the table too,
\* and with a fact-check bonus its 60 points still are.
C6_UnknownTierForcesCaution ==
    /\ op = "score_source_for_context"
    /\ DictGet(args.source, "newsguard_score") = None
    /\ DictGet(args.source, "source_type") = Some("fact_check")
    /\ ret.weighted_score = Pts(60)
    /\ ret.credibility_tier = "unknown"
    /\ ret.recommendation = "use_with_caution"

\* C7: get_credibility_tier returns unknown for an absent score, high from 80,
\* medium from 60 up to (not including) 80 and low below 60.
C7_TierTable ==
    op = "get_credibility_tier" =>
        IF args.score = None THEN ret = "unknown"
        ELSE /\ args.score[1] >= Pts(80) => ret = "high"
             /\ (args.score[1] >= Pts(60) /\ args.score[1] < Pts(80)) => ret = "medium"
             /\ args.score[1] < Pts(60) => ret = "low"

C7_SixtyIsMedium ==
    /\ op = "get_credibility_tier"
    /\ args.score = Some(Pts(60))
    /\ ret = "medium"

\* C8: the credibility_tier of a scoring result is the tier of the source's
\* own score, not of the weighted score: it is the same under every context,
\* also when the bonus or the penalty carries the weighted score across 60 or 80.
C8_TierFromOriginalScore ==
    op = "score_source_for_context" =>
        LET score == DictGet(args.source, "newsguard_score")
        IN /\ ret.credibility_tier =
                  (IF score = None THEN "unknown"
                   ELSE IF score[1] >= Pts(80) THEN "high"
                   ELSE IF score[1] >= Pts(60) THEN "medium"
                   ELSE "low")
           /\ \A context \in ContextInputs :
                  score_source_for_context(args.source, context).credibility_tier
                      = ret.credibility_tier

\* 78 points and a fact-check bonus: weighted 88, tier still medium.
C8_BonusCrossesEighty ==
    /\ op = "score_source_for_context"
    /\ DictGet(args.source, "newsguard_score") = Some(Pts(78))
    /\ DictGet(args.source, "source_type") = Some("fact_check")
    /\ ret.weighted_score = Pts(88)
    /\ ret.credibility_tier = "medium"

\* C9: score_source_for_context returns, for every source dict (any of the
\* score, type and lean missing or None, all of them included) and every
\* context (None, empty, or with claim_type / evidence_role), a result with a
\* weighted score, a breakdown, a tier among high, medium, low, unknown and a
\* recommendation among strong, acceptable, use_with_caution, not_recommended.
C9_ScoringIsTotal ==
    op = "score_source_for_context" =>
        /\ DOMAIN ret = {"weighted_score", "scoring_breakdown", "recommendation",
                         "credibility_tier"}
        /\ ret.weighted_score \in 0..Pts(100)
        /\ DOMAIN ret.scoring_breakdown = {"credibility_score", "bias_penalty",
                                           "type_bonus", "explanation"}
        /\ ret.scoring_breakdown.credibility_score \in Int
        /\ Len(ret.scoring_breakdown.explanation) >= 1
        /\ ret.credibility_tier \in Tiers
        /\ ret.recommendation \in Recommendations

\* The empty source dict scored with no context.
C9_AllAbsent ==
    /\ op = "score_source_for_context"
    /\ DOMAIN args.source = {}
    /\ args.context = None
    /\ ret.credibility_tier = "unknown"
    /\ ret.recommendation = "use_with_caution"

\* C23: the explanation is, in this order, the base clause (the no-rating
\* clause when the score is absent), the type-bonus clause exactly when the
\* bonus is > 0, the bias-penalty clause exactly when the penalty is < 0, with
\* the label of the lean, and the counternarrative clause exactly when the
\* role is counternarrative, with the label of the lean (Left, Lean Left,
\* Center, Lean Right, Right for -2..2, Unknown for any other or no lean);
\* the bias-penalty and the counternarrative clause are never both there.
C23_ExplanationClausesInOrder ==
    op = "calculate_weighted_score" =>
        LET lean == args.political_lean
            label == IF lean = Some(-2) THEN "Left"
                     ELSE IF lean = Some(-1) THEN "Lean Left"
                     ELSE IF lean = Some(0) THEN "Center"
                     ELSE IF lean = Some(1) THEN "Lean Right"
                     ELSE IF lean = Some(2) THEN "Right"
                     ELSE "Unknown"
            base == IF args.base_credibility = None
                    THEN <<[clause |-> "no_rating", num |-> Pts(50), text |-> ""]>>
                    ELSE <<[clause |-> "base", num |-> args.base_credibility[1],
                            text |-> ""]>>
            bonus == IF ret.breakdown.type_bonus > 0
                     THEN <<[clause |-> "type_bonus", num |-> ret.breakdown.type_bonus,
                             text |-> args.source_type[1]]>>
                     ELSE <<>>
            penalty == IF ret.breakdown.bias_penalty < 0
                       THEN <<[clause |-> "bias_penalty",
                               num |-> ret.breakdown.bias_penalty, text |-> label]>>
                       ELSE <<>>
            counter == IF args.evidence_role = "counternarrative"
                       THEN <<[clause |-> "counternarrative", num |-> 0,
                               text |-> label]>>
                       ELSE <<>>
        IN /\ ret.breakdown.explanation = base \o bonus \o penalty \o counter
           /\ penalty = <<>> \/ counter = <<>>
           /\ penalty # <<>> => label # "Unknown"

\* A hard-left fact checker as neutral evidence: base, bonus and penalty
\* clauses, in that order.
C23_BonusThenPenalty ==
    /\ op = "calculate_weighted_score"
    /\ args.source_type = Some("fact_check")
    /\ args.political_lean = Some(-2)
    /\ args.evidence_role = "neutral"
    /\ Len(ret.breakdown.explanation) = 3
    /\ ret.breakdown.explanation[2].clause = "type_bonus"
    /\ ret.breakdown.explanation[3] =
           [clause |-> "bias_penalty", num |-> -Pts(10), text |-> "Left"]

\* C19 (as claimed): the breakdown's credibility_score is the base the
\* computation used (the score when present, 0 included, else 50), so that
\* weighted_score = clamp(credibility_score + type_bonus + bias_penalty, 0, 100)
\* over the breakdown's own fields.
C19_BreakdownBaseIsBaseUsed ==
    op = "calculate_weighted_score" =>
        /\ ret.breakdown.credibility_score =
               (IF args.base_credibility = None
                THEN Pts(50)
                ELSE args.base_credibility[1])
        /\ ret.weighted_score =
               Clamp(ret.breakdown.credibility_score + ret.breakdown.type_bonus
                         + ret.breakdown.bias_penalty)

(***************************************************************************)
(* api/database.py: the sources table and the counternarrative query.      *)
(*                                                                         *)
(* repo is the sources table: a function from the stored domains (the      *)
(* primary key) to the columns the queries read.  A domain is a tuple of   *)
(* characters; stored domains and queried domains are lower-case host      *)
(* names without the LIKE wildcards % and _.  A query without ORDER BY, or *)
(* with equal sort keys, may return its rows in any order: fetchone() and  *)
(* LIMIT then pick any row / any prefix that some order allows.            *)
(***************************************************************************)

\* haystack LIKE '%needle%'
Like(haystack, needle) ==
    \E i \in 1..(Len(haystack) - Len(needle) + 1) :
        SubSeq(haystack, i, i + Len(needle) - 1) = needle

\* SELECT political_lean FROM sources WHERE domain = ? OR domain LIKE ?
\* (the domains of the rows the first query of find_counternarratives selects)
SourceLeanRows(table, domain) ==
    {d \in DOMAIN table : d = domain \/ Like(d, domain)}

\* 'if preferred_leans is not None': an empty list counts as given.
PreferredGivenNotNone(preferred_leans) == preferred_leans # None

\* "if preferred_leans:": None and the empty list are both falsy.
PreferredGiven(preferred_leans) == preferred_leans # None /\ preferred_leans[1] # <<>>

InList(lean, list) == \E i \in 1..Len(list) : list[i] = lean

\* The WHERE clause of the query that find_counternarratives runs for a
\* source of lean source_lean, on the row of domain d.  A comparison with
\* NULL is not true: a row without a lean or without a score is not selected.
WhereAllowListOnly(table, d, source_lean, min_credibility, preferred_leans) ==
    LET lean == table[d].political_lean
        score == table[d].newsguard_score
    IN /\ lean # None
       /\ score # None
       /\ score[1] >= Pts(min_credibility)
       /\ IF PreferredGiven(preferred_leans)
          THEN InList(lean[1], preferred_leans[1])
          ELSE IF source_lean = 0 THEN lean[1] # 0 ELSE lean[1] * source_lean < 0

\* The allow-list query of a center source with "political_lean != 0" kept.
WhereCenterNonZero(table, d, source_lean, min_credibility, preferred_leans) ==
    LET lean == table[d].political_lean
        score == table[d].newsguard_score
    IN /\ lean # None
       /\ score # None
       /\ score[1] >= Pts(min_credibility)
       /\ IF source_lean = 0
          THEN IF PreferredGiven(preferred_leans)
               THEN InList(lean[1], preferred_leans[1]) /\ lean[1] # 0
               ELSE lean[1] # 0
          ELSE IF PreferredGiven(preferred_leans)
               THEN InList(lean[1], preferred_leans[1]) /\ lean[1] * source_lean < 0
               ELSE lean[1] * source_lean < 0

\* The center query selecting the right side only.
WhereCenterRightOnly(table, d, source_lean, min_credibility, preferred_leans) ==
    LET lean == table[d].political_lean
        score == table[d].newsguard_score
    IN /\ lean # None
       /\ score # None
       /\ score[1] >= Pts(min_credibility)
       /\ IF source_lean = 0
          THEN IF PreferredGiven(preferred_leans)
               THEN InList(lean[1], preferred_leans[1])
               ELSE lean[1] > 0
          ELSE IF PreferredGiven(preferred_leans)
               THEN InList(lean[1], preferred_leans[1]) /\ lean[1] * source_lean < 0
               ELSE lean[1] * source_lean < 0

\* The queries without "newsguard_score >= ?".
WhereNoFloor(table, d, source_lean, min_credibility, preferred_leans) ==
    LET lean == table[d].political_lean
        score == table[d].newsguard_score
    IN /\ lean # None
       /\ score # None
       /\ IF source_lean = 0
          THEN IF PreferredGiven(preferred_leans)
               THEN InList(lean[1], preferred_leans[1])
               ELSE lean[1] # 0
          ELSE IF PreferredGiven(preferred_leans)
               THEN InList(lean[1], preferred_leans[1]) /\ lean[1] * source_lean < 0
               ELSE lean[1] * source_lean < 0

\* The queries with "newsguard_score <= ?".
WhereCeiling(table, d, source_lean, min_credibility, preferred_leans) ==
    LET lean == table[d].political_lean
        score == table[d].newsguard_score
    IN /\ lean # None
       /\ score # None
       /\ score[1] <= Pts(min_credibility)
       /\ IF source_lean = 0
          THEN IF PreferredGiven(preferred_leans)
               THEN InList(lean[1], preferred_leans[1])
               ELSE lean[1] # 0
          ELSE IF PreferredGiven(preferred_leans)
               THEN InList(lean[1], preferred_leans[1]) /\ lean[1] * source_lean < 0
               ELSE lean[1] * source_lean < 0

Where(table, d, source_lean, min_credibility, preferred_leans) ==
    LET lean == table[d].political_lean
        score == table[d].newsguard_score
    IN /\ lean # None
       /\ score # None
       /\ score[1] >= Pts(min_credibility)
       /\ IF source_lean = 0
          THEN IF PreferredGiven(preferred_leans)
               THEN InList(lean[1], preferred_leans[1])
               ELSE lean[1] # 0
          ELSE IF PreferredGiven(preferred_leans)
               THEN InList(lean[1], preferred_leans[1]) /\ lean[1] * source_lean < 0
               ELSE lean[1] * source_lean < 0

\* ORDER BY newsguard_score (ascending) LIMIT ?
OrderByScoreAscLimit(table, selected, limit) ==
    LET n == Cardinality(selected)
        orders == {o \in [1..n -> selected] :
                      /\ \A i, j \in 1..n : i # j => o[i] # o[j]
                      /\ \A i, j \in 1..n :
                             i < j => table[o[i]].newsguard_score[1]
                                          <= table[o[j]].newsguard_score[1]}
        kept == IF limit < 0 THEN n ELSE Min(limit, n)
    IN {SubSeq(o, 1, kept) : o \in orders}

\* ORDER BY newsguard_score DESC LIMIT ?: the row sequences the query may
\* return for the selected domains (a negative LIMIT is no limit).
OrderByScoreDescLimit(table, selected, limit) ==
    LET n == Cardinality(selected)
        orders == {o \in [1..n -> selected] :
                      /\ \A i, j \in 1..n : i # j => o[i] # o[j]
                      /\ \A i, j \in 1..n :
                             i < j => table[o[i]].newsguard_score[1]
                                          >= table[o[j]].newsguard_score[1]}
        kept == IF limit < 0 THEN n ELSE Min(limit, n)
    IN {SubSeq(o, 1, kept) : o \in orders}

\* dict(row) of a selected row: the domain and the columns the table holds.
RowDict(table, d) == [domain |-> d] @@ table[d]

\* find_counternarratives with 'not row["political_lean"]' for the early
\* return: a lean of 0 is falsy and returns the empty list too.
find_counternarratives_falsy_lean(table, domain, min_credibility, limit, preferred_leans) ==
    IF SourceLeanRows(table, domain) = {}
    THEN {[resolved |-> None, rows |-> <<>>]}
    ELSE UNION {
        IF table[r].political_lean \in {None, Some(0)}
        THEN {[resolved |-> Some(r), rows |-> <<>>]}
        ELSE LET source_lean == table[r].political_lean[1]
                 selected == {d \in DOMAIN table :
                                 Where(table, d, source_lean, min_credibility,
                                       preferred_leans)}
             IN {[resolved |-> Some(r),
                  rows |-> [i \in 1..Len(o) |-> RowDict(table, o[i])]] :
                 o \in OrderByScoreDescLimit(table, selected, limit)}
        : r \in SourceLeanRows(table, domain)}

\* find_counternarratives: the set of its possible outcomes.  resolved is the
\* domain of the row whose lean the first query fetched (None when no row
\* matched); rows is the returned list.
find_counternarratives(table, domain, min_credibility, limit, preferred_leans) ==
    IF SourceLeanRows(table, domain) = {}
    THEN {[resolved |-> None, rows |-> <<>>]}
    ELSE UNION {
        IF table[r].political_lean = None
        THEN {[resolved |-> Some(r), rows |-> <<>>]}
        ELSE LET source_lean == table[r].political_lean[1]
                 selected == {d \in DOMAIN table :
                                 Where(table, d, source_lean, min_credibility,
                                       preferred_leans)}
             IN {[resolved |-> Some(r),
                  rows |-> [i \in 1..Len(o) |-> RowDict(table, o[i])]] :
                 o \in OrderByScoreDescLimit(table, selected, limit)}
        : r \in SourceLeanRows(table, domain)}

(***************************************************************************)
(* The repository service as a state machine: the table is any table over  *)
(* the stored domains, and a step is one call on it.                       *)
(***************************************************************************)

\* The number of rows of the table.
MaxSources == 3

\* The largest LIMIT a call passes.
MaxLimit == 2

\* The domains rows are stored under, in the order they are taken: "ab" is a
\* substring of "abc" and of "xab".
DomainPool == << <<"a", "b">>, <<"a", "b", "c">>, <<"x", "y">>, <<"x", "a", "b">> >>

StoredDomains == {DomainPool[i] : i \in 1..Min(MaxSources, Len(DomainPool))}

\* The domains calls ask for: a stored one that is also a substring of
\* another, a substring of stored ones that is not stored, and an unknown one.
QueryDomains == {<<"a", "b">>, <<"b">>, <<"z">>}

StoredLeans == {None} \cup {Some(l) : l \in -2..2}

StoredScores == {None, Some(Pts(50)), Some(Pts(70))}

MinCredibilityInputs == {0, 60}

LimitInputs == 1..MaxLimit

PreferredLeansInputs == {None, Some(<<>>), Some(<<-1, 0>>), Some(<<1, 2>>)}

Init ==
    /\ repo \in [StoredDomains -> [political_lean : StoredLeans,
                                   newsguard_score : StoredScores]]
    /\ op = "idle"
    /\ args = <<>>
    /\ ret = <<>>
    /\ NoContentRequest

FindCounternarratives ==
    /\ op = "idle"
    /\ \E domain \in QueryDomains, min_credibility \in MinCredibilityInputs,
          limit \in LimitInputs, preferred_leans \in PreferredLeansInputs :
        \E outcome \in find_counternarratives(repo, domain, min_credibility, limit,
                                              preferred_leans) :
            /\ op' = "find_counternarratives"
            /\ args' = [domain |-> domain, min_credibility |-> min_credibility,
                        limit |-> limit, preferred_leans |-> preferred_leans]
            /\ ret' = outcome
            /\ UNCHANGED <<repo, contentVars>>

Next ==
    \/ FindCounternarratives

Spec == Init /\ [][Next]_vars

(***************************************************************************)
(* Properties of the counternarrative query, checked under Spec.           *)
(***************************************************************************)

\* C10: when the source that find_counternarratives resolves has a non-zero
\* lean s, every returned source has a lean c with s * c < 0, with and without
\* preferred_leans and for every table, min_credibility and limit: no
\* same-side, center or lean-less source is returned.
C10_OppositeSignOnly ==
    ( /\ op = "find_counternarratives"
      /\ ret.resolved # None
      /\ repo[ret.resolved[1]].political_lean \notin {None, Some(0)} ) =>
        \A i \in 1..Len(ret.rows) :
            /\ ret.rows[i].political_lean # None
            /\ repo[ret.resolved[1]].political_lean[1]
                   * ret.rows[i].political_lean[1] < 0

\* A Lean Left source asked for with an allow-list that names the right side:
\* a right-side source is returned.
C10_RightSideForLeftSource ==
    /\ op = "find_counternarratives"
    /\ ret.resolved # None
    /\ repo[ret.resolved[1]].political_lean = Some(-1)
    /\ args.preferred_leans = Some(<<1, 2>>)
    /\ Len(ret.rows) >= 1
    /\ ret.rows[1].political_lean = Some(2)

\* C11 (as claimed): when preferred_leans is supplied, the candidates are the
\* sources whose lean is in the allow-list and that meet the credibility
\* floor, with no opposite-side test, for a center and for a non-center source.
C11_AllowListReplacesSignTest ==
    ( /\ op = "find_counternarratives"
      /\ ret.resolved # None
      /\ repo[ret.resolved[1]].political_lean # None
      /\ PreferredGiven(args.preferred_leans) ) =>
        LET allowed == {d \in DOMAIN repo :
                           /\ repo[d].political_lean # None
                           /\ InList(repo[d].political_lean[1], args.preferred_leans[1])
                           /\ repo[d].newsguard_score # None
                           /\ repo[d].newsguard_score[1] >= Pts(args.min_credibility)}
        IN /\ \A i \in 1..Len(ret.rows) : ret.rows[i].domain \in allowed
           /\ Len(ret.rows) = Min(args.limit, Cardinality(allowed))

\* C11 (amended): when preferred_leans is supplied, the candidates are the
\* sources whose lean is in the allow-list and that meet the credibility
\* floor; for a center source no further lean test applies (a lean of 0 in the
\* list selects center sources), and for a non-center source the opposite-sign
\* test applies as well, so a lean -1 source with preferred_leans = [-1] gets
\* no source.
C11_AllowListWithinOpposingSide ==
    ( /\ op = "find_counternarratives"
      /\ ret.resolved # None
      /\ repo[ret.resolved[1]].political_lean # None
      /\ PreferredGiven(args.preferred_leans) ) =>
        LET source_lean == repo[ret.resolved[1]].political_lean[1]
            allowed == {d \in DOMAIN repo :
                           /\ repo[d].political_lean # None
                           /\ InList(repo[d].political_lean[1], args.preferred_leans[1])
                           /\ source_lean # 0 =>
                                  repo[d].political_lean[1] * source_lean < 0
                           /\ repo[d].newsguard_score # None
                           /\ repo[d].newsguard_score[1] >= Pts(args.min_credibility)}
        IN /\ \A i \in 1..Len(ret.rows) : ret.rows[i].domain \in allowed
           /\ Len(ret.rows) = Min(args.limit, Cardinality(allowed))

\* A Lean Left source with an allow-list of its own side and the center, and a
\* credible source in that list: nothing is returned.
C11_SameSideListGivesNothing ==
    /\ op = "find_counternarratives"
    /\ ret.resolved # None
    /\ repo[ret.resolved[1]].political_lean = Some(-1)
    /\ args.preferred_leans = Some(<<-1, 0>>)
    /\ \E d \in DOMAIN repo :
           /\ repo[d].political_lean \in {Some(-1), Some(0)}
           /\ repo[d].newsguard_score = Some(Pts(70))
    /\ ret.rows = <<>>

\* C12 (as claimed): find_counternarratives resolves the domain to the row
\* stored under exactly that domain when there is one, and to a row whose
\* domain contains it only when there is none.
C12_ExactMatchFirst ==
    ( /\ op = "find_counternarratives"
      /\ ret.resolved # None ) =>
        IF args.domain \in DOMAIN repo
        THEN ret.resolved = Some(args.domain)
        ELSE Like(ret.resolved[1], args.domain)

\* C13: for a resolved source of lean 0 and no preferred_leans, the returned
\* sources all have a non-zero lean and a score of at least min_credibility,
\* none has lean 0 or no lean, and a qualifying source (of either sign) that
\* fewer than `limit` other qualifying sources equal or beat in score is
\* returned: both sides appear when both are among the top `limit`.
C13_CenterGetsBothSides ==
    ( /\ op = "find_counternarratives"
      /\ ret.resolved # None
      /\ repo[ret.resolved[1]].political_lean = Some(0)
      /\ ~PreferredGiven(args.preferred_leans) ) =>
        LET qualifying == {d \in DOMAIN repo :
                              /\ repo[d].political_lean \notin {None, Some(0)}
                              /\ repo[d].newsguard_score # None
                              /\ repo[d].newsguard_score[1] >= Pts(args.min_credibility)}
            returned == {ret.rows[i].domain : i \in 1..Len(ret.rows)}
        IN /\ returned \subseteq qualifying
           /\ \A d \in qualifying :
                  Cardinality({e \in qualifying \ {d} :
                                  repo[e].newsguard_score[1] >= repo[d].newsguard_score[1]})
                      < args.limit
                  => d \in returned

\* A center source whose result holds a left-side and a right-side source.
C13_BothSidesReturned ==
    /\ op = "find_counternarratives"
    /\ ret.resolved # None
    /\ repo[ret.resolved[1]].political_lean = Some(0)
    /\ args.preferred_leans = None
    /\ \E i, j \in 1..Len(ret.rows) :
           /\ ret.rows[i].political_lean[1] < 0
           /\ ret.rows[j].political_lean[1] > 0

\* C14: every source find_counternarratives returns has a score, and that
\* score is at least min_credibility, for every lean of the resolved source
\* and with or without preferred_leans.
C14_ScoredAboveFloor ==
    op = "find_counternarratives" =>
        \A i \in 1..Len(ret.rows) :
            /\ ret.rows[i].newsguard_score # None
            /\ ret.rows[i].newsguard_score[1] >= Pts(args.min_credibility)

\* A floor of 60, a center source, and the only leaning sources one below the
\* floor and one without a score: neither is returned.
C14_UnratedAndLowLeftOut ==
    /\ op = "find_counternarratives"
    /\ args.min_credibility = 60
    /\ args.preferred_leans = None
    /\ ret.resolved # None
    /\ repo[ret.resolved[1]].political_lean = Some(0)
    /\ \E d \in DOMAIN repo :
           repo[d].political_lean = Some(1) /\ repo[d].newsguard_score = None
    /\ \E d \in DOMAIN repo :
           repo[d].political_lean = Some(-1) /\ repo[d].newsguard_score = Some(Pts(50))
    /\ ret.rows = <<>>

\* C15: the returned list is in non-increasing order of score, has at most
\* `limit` elements, and no qualifying source left out has a strictly higher
\* score than a returned one; it has `limit` elements when that many qualify.
C15_TopLimitByScore ==
    ( /\ op = "find_counternarratives"
      /\ ret.resolved # None
      /\ repo[ret.resolved[1]].political_lean # None ) =>
        LET source_lean == repo[ret.resolved[1]].political_lean[1]
            returned == {ret.rows[i].domain : i \in 1..Len(ret.rows)}
            qualifying == {d \in DOMAIN repo :
                              Where(repo, d, source_lean, args.min_credibility,
                                    args.preferred_leans)}
        IN /\ \A i, j \in 1..Len(ret.rows) :
                  i < j => ret.rows[i].newsguard_score[1]
                               >= ret.rows[j].newsguard_score[1]
           /\ Len(ret.rows) <= args.limit
           /\ Cardinality(returned) = Len(ret.rows)
           /\ returned \subseteq qualifying
           /\ Len(ret.rows) = Min(args.limit, Cardinality(qualifying))
           /\ \A d \in qualifying \ returned : \A e \in returned :
                  repo[d].newsguard_score[1] <= repo[e].newsguard_score[1]

\* Two qualifying sources and a limit of 1: the 70 is returned, the 50 is not.
C15_HigherScoreKept ==
    /\ op = "find_counternarratives"
    /\ args.limit = 1
    /\ args.min_credibility = 0
    /\ Len(ret.rows) = 1
    /\ ret.rows[1].newsguard_score = Some(Pts(70))
    /\ \E d \in DOMAIN repo :
           /\ d # ret.rows[1].domain
           /\ repo[d].newsguard_score = Some(Pts(50))
           /\ Where(repo, d, repo[ret.resolved[1]].political_lean[1], 0,
                    args.preferred_leans)

\* C16: for a fixed table, domain (resolved to the same row), limit and
\* preferred_leans, a call with a min_credibility at least as high returns no
\* more sources than this call did.
C16_FloorIsMonotone ==
    op = "find_counternarratives" =>
        \A higher \in {m \in MinCredibilityInputs : m >= args.min_credibility} :
            \A other \in find_counternarratives(repo, args.domain, higher, args.limit,
                                                args.preferred_leans) :
                other.resolved = ret.resolved => Len(other.rows) <= Len(ret.rows)

\* A call with floor 0 that returns two sources where floor 60 returns fewer.
C16_HigherFloorReturnsFewer ==
    /\ op = "find_counternarratives"
    /\ args.min_credibility = 0
    /\ Len(ret.rows) = 2
    /\ \E other \in find_counternarratives(repo, args.domain, 60, args.limit,
                                           args.preferred_leans) :
           other.resolved = ret.resolved /\ Len(other.rows) < 2

\* C17: when the resolved source has no lean, find_counternarratives returns
\* the empty list, whatever min_credibility, limit and preferred_leans are; a
\* resolved source of lean 0 is not treated so: without preferred_leans it
\* gets a source whenever one with a non-zero lean meets the floor.
C17_NoLeanGivesEmptyList ==
    /\ ( /\ op = "find_counternarratives"
         /\ ret.resolved # None
         /\ repo[ret.resolved[1]].political_lean = None ) => ret.rows = <<>>
    /\ ( /\ op = "find_counternarratives"
         /\ ret.resolved # None
         /\ repo[ret.resolved[1]].political_lean = Some(0)
         /\ ~PreferredGiven(args.preferred_leans)
         /\ \E d \in DOMAIN repo :
                /\ repo[d].political_lean \notin {None, Some(0)}
                /\ repo[d].newsguard_score # None
                /\ repo[d].newsguard_score[1] >= Pts(args.min_credibility) )
            => ret.rows # <<>>

\* A source without a lean, in a table with credible sources on both sides.
C17_NoLeanAmongLeaningSources ==
    /\ op = "find_counternarratives"
    /\ ret.resolved # None
    /\ repo[ret.resolved[1]].political_lean = None
    /\ \E d, e \in DOMAIN repo :
           /\ repo[d].political_lean = Some(-2) /\ repo[d].newsguard_score = Some(Pts(70))
           /\ repo[e].political_lean = Some(2) /\ repo[e].newsguard_score = Some(Pts(70))
    /\ ret.rows = <<>>

\* C28 (as claimed): the source a counternarrative lookup resolves is never
\* in its own result list, whatever its lean, min_credibility, limit and
\* preferred_leans are.
C28_SourceNotItsOwnCounternarrative ==
    (op = "find_counternarratives" /\ ret.resolved # None) =>
        \A i \in 1..Len(ret.rows) : ret.rows[i].domain # ret.resolved[1]

\* C29: a call with the empty preferred_leans list has a result the call
\* without preferred_leans can give, and the other way round: the sources of
\* opposite sign for a non-center source, those of non-zero lean for a center
\* source, and not the empty intersection.
C29_EmptyListIsNoList ==
    /\ (op = "find_counternarratives" /\ args.preferred_leans = Some(<<>>)) =>
           /\ ret \in find_counternarratives(repo, args.domain, args.min_credibility,
                                             args.limit, None)
           /\ ( /\ ret.resolved # None
                /\ repo[ret.resolved[1]].political_lean # None
                /\ \E d \in DOMAIN repo :
                       /\ repo[d].political_lean # None
                       /\ repo[d].newsguard_score # None
                       /\ repo[d].newsguard_score[1] >= Pts(args.min_credibility)
                       /\ IF repo[ret.resolved[1]].political_lean[1] = 0
                          THEN repo[d].political_lean[1] # 0
                          ELSE repo[d].political_lean[1]
                                   * repo[ret.resolved[1]].political_lean[1] < 0 )
              => ret.rows # <<>>
    /\ (op = "find_counternarratives" /\ args.preferred_leans = None) =>
           ret \in find_counternarratives(repo, args.domain, args.min_credibility,
                                          args.limit, Some(<<>>))

\* A call with the empty list that returns a source.
C29_EmptyListReturnsOpposingSource ==
    /\ op = "find_counternarratives"
    /\ args.preferred_leans = Some(<<>>)
    /\ ret.resolved # None
    /\ repo[ret.resolved[1]].political_lean = Some(-1)
    /\ Len(ret.rows) >= 1
    /\ ret.rows[1].political_lean[1] > 0

(***************************************************************************)
(* api/routes: the counternarratives and the analyze endpoints over the    *)
(* sources table.  Here the table also holds the source_type column, which *)
(* the scorer reads.  A model domain stands for the registered domain      *)
(* ("ab" for ab.com); a URL is its subdomain, its registered domain and    *)
(* its path.                                                               *)
(***************************************************************************)

\* lookup_source: the exactly matching row when there is one, else any row
\* whose domain contains the query (LIKE ... LIMIT 1 without ORDER BY), else
\* None.
lookup_source(table, domain) ==
    IF domain \in DOMAIN table
    THEN {Some(RowDict(table, domain))}
    ELSE LET fuzzy == {d \in DOMAIN table : Like(d, domain)}
         IN IF fuzzy = {}
            THEN {None}
            ELSE {Some(RowDict(table, d)) : d \in fuzzy}

\* The tokens int() accepts after strip(), with their values.
IntTokens == ("-1" :> -1) @@ (" 0" :> 0) @@ ("1" :> 1) @@ ("2" :> 2)

\* The query string preferred_leans, given as the list split(",") makes of
\* it; the empty string splits into one empty token and is falsy.
PreferredString(preferred_leans) ==
    preferred_leans # None /\ preferred_leans[1] # <<"">>

\* [int(l.strip()) for l in preferred_leans.split(",")] raises ValueError.
ParseFails(tokens) == \E i \in 1..Len(tokens) : tokens[i] \notin DOMAIN IntTokens

ParseLeans(tokens) == [i \in 1..Len(tokens) |-> IntTokens[tokens[i]]]

\* The loop of get_counternarratives scoring the rows with a claim type.
scored_counters_political(counters) ==
    [i \in 1..Len(counters) |->
        counters[i] @@
        [weighted_score |->
            score_source_for_context(
                counters[i],
                Some([evidence_role |-> "counternarrative",
                      claim_type |-> "political"])).weighted_score]]

\* The loop of get_counternarratives: SourceWithScore(**counter,
\* weighted_score=...) for each row.
scored_counters(counters) ==
    [i \in 1..Len(counters) |->
        counters[i] @@
        [weighted_score |->
            score_source_for_context(
                counters[i],
                Some([evidence_role |-> "counternarrative"])).weighted_score]]

\* get_counternarratives answering 200 for a domain lookup_source did not find.
get_counternarratives_no_404(table, domain, min_credibility, limit, preferred_leans) ==
    UNION {
        IF PreferredString(preferred_leans) /\ ParseFails(preferred_leans[1])
        THEN {[status |-> 400, body |-> None]}
        ELSE LET preferred_leans_list ==
                     IF PreferredString(preferred_leans)
                     THEN Some(ParseLeans(preferred_leans[1]))
                     ELSE None
             IN {[status |-> 200,
                  body |-> Some([source_domain |-> domain,
                                 source |-> source,
                                 counternarratives |-> scored_counters(o.rows),
                                 total |-> Len(o.rows)])] :
                 o \in find_counternarratives(table, domain, min_credibility, limit,
                                              preferred_leans_list)}
        : source \in lookup_source(table, domain)}

\* GET /sources/{domain}/counternarratives: the set of its possible
\* responses.  source is the row lookup_source returned, from which the
\* response takes source_name and source_lean.
get_counternarratives(table, domain, min_credibility, limit, preferred_leans) ==
    UNION {
        IF source = None
        THEN {[status |-> 404, body |-> None]}
        ELSE IF PreferredString(preferred_leans) /\ ParseFails(preferred_leans[1])
        THEN {[status |-> 400, body |-> None]}
        ELSE LET preferred_leans_list ==
                     IF PreferredString(preferred_leans)
                     THEN Some(ParseLeans(preferred_leans[1]))
                     ELSE None
             IN {[status |-> 200,
                  body |-> Some([source_domain |-> domain,
                                 source |-> source,
                                 counternarratives |-> scored_counters(o.rows),
                                 total |-> Len(o.rows)])] :
                 o \in find_counternarratives(table, domain, min_credibility, limit,
                                              preferred_leans_list)}
        : source \in lookup_source(table, domain)}

\* tldextract: the registered domain of the URL, without subdomain and path.
extract_domain(url) == url.registered

\* A URL without a registered domain extracts to "." and is rejected.
is_valid_url(url) == extract_domain(url) # <<>>

\* POST /analyze: the set of its possible responses.
analyze_url(table, request) ==
    IF ~is_valid_url(request.url)
    THEN {[url |-> request.url, domain |-> <<>>, source |-> None,
           source_found |-> FALSE, counternarratives |-> None,
           error |-> Some("Invalid URL format")]}
    ELSE LET domain == extract_domain(request.url)
         IN UNION {
                IF source = None
                THEN {[url |-> request.url, domain |-> domain, source |-> None,
                       source_found |-> FALSE, counternarratives |-> None,
                       error |-> Some("Source not found in database")]}
                ELSE IF request.include_counternarratives
                THEN {[url |-> request.url, domain |-> domain, source |-> source,
                       source_found |-> TRUE,
                       counternarratives |-> Some(scored_counters(o.rows)),
                       error |-> None] :
                      o \in find_counternarratives(
                                table, domain,
                                request.min_counternarrative_credibility,
                                request.counternarrative_limit,
                                request.preferred_leans)}
                ELSE {[url |-> request.url, domain |-> domain, source |-> source,
                       source_found |-> TRUE, counternarratives |-> None,
                       error |-> None]}
                : source \in lookup_source(table, domain)}

\* The most URLs one batch request may carry.
MaxBatchUrls == 50

\* AnalyzeRequest(url=""): the options of a batch request that gives none.
DefaultOptions ==
    [url |-> [subdomain |-> <<>>, registered |-> <<>>, path |-> <<>>],
     include_counternarratives |-> TRUE,
     min_counternarrative_credibility |-> 60,
     counternarrative_limit |-> 10,
     preferred_leans |-> None]

\* The loop of analyze_batch putting each result in front of the list.
RECURSIVE BatchLoopPrepend(_, _, _)
BatchLoopPrepend(table, urls, options) ==
    IF urls = <<>>
    THEN {[results |-> <<>>, successful |-> 0, failed |-> 0]}
    ELSE LET n == Len(urls)
             analyze_request ==
                 [url |-> urls[n],
                  include_counternarratives |-> options.include_counternarratives,
                  min_counternarrative_credibility |->
                      options.min_counternarrative_credibility,
                  counternarrative_limit |-> options.counternarrative_limit,
                  preferred_leans |-> options.preferred_leans]
         IN {[results |-> <<result>> \o done.results,
              successful |-> IF result.source_found /\ result.error = None
                             THEN done.successful + 1
                             ELSE done.successful,
              failed |-> IF result.source_found /\ result.error = None
                         THEN done.failed
                         ELSE done.failed + 1] :
             done \in BatchLoopPrepend(table, SubSeq(urls, 1, n - 1), options),
             result \in analyze_url(table, analyze_request)}

\* The loop of analyze_batch over the URLs, first to last: the results so far
\* and the two counters, after the last of `urls` has been analysed.
RECURSIVE BatchLoop(_, _, _)
BatchLoop(table, urls, options) ==
    IF urls = <<>>
    THEN {[results |-> <<>>, successful |-> 0, failed |-> 0]}
    ELSE LET n == Len(urls)
             analyze_request ==
                 [url |-> urls[n],
                  include_counternarratives |-> options.include_counternarratives,
                  min_counternarrative_credibility |->
                      options.min_counternarrative_credibility,
                  counternarrative_limit |-> options.counternarrative_limit,
                  preferred_leans |-> options.preferred_leans]
         IN {[results |-> Append(done.results, result),
              successful |-> IF result.source_found /\ result.error = None
                             THEN done.successful + 1
                             ELSE done.successful,
              failed |-> IF result.source_found /\ result.error = None
                         THEN done.failed
                         ELSE done.failed + 1] :
             done \in BatchLoop(table, SubSeq(urls, 1, n - 1), options),
             result \in analyze_url(table, analyze_request)}

\* analyze_batch refusing a list of 50 URLs already.
analyze_batch_rejects_fifty(table, request) ==
    IF request.urls = <<>>
    THEN {[status |-> 400, body |-> None]}
    ELSE IF Len(request.urls) >= MaxBatchUrls
    THEN {[status |-> 400, body |-> None]}
    ELSE LET options == IF request.options # None
                        THEN request.options[1]
                        ELSE DefaultOptions
         IN {[status |-> 200,
              body |-> Some([results |-> loop.results,
                             total |-> Len(request.urls),
                             successful |-> loop.successful,
                             failed |-> loop.failed])] :
             loop \in BatchLoop(table, request.urls, options)}

\* POST /analyze/batch: the set of its possible responses.
analyze_batch(table, request) ==
    IF request.urls = <<>>
    THEN {[status |-> 400, body |-> None]}
    ELSE IF Len(request.urls) > MaxBatchUrls
    THEN {[status |-> 400, body |-> None]}
    ELSE LET options == IF request.options # None
                        THEN request.options[1]
                        ELSE DefaultOptions
         IN {[status |-> 200,
              body |-> Some([results |-> loop.results,
                             total |-> Len(request.urls),
                             successful |-> loop.successful,
                             failed |-> loop.failed])] :
             loop \in BatchLoop(table, request.urls, options)}

\* str.strip() of a token: without its leading and trailing blanks.
Strip(token) ==
    LET inked == {i \in 1..Len(token) : token[i] # " "}
    IN IF inked = {}
       THEN <<>>
       ELSE SubSeq(token,
                   CHOOSE i \in inked : \A j \in inked : i <= j,
                   CHOOSE i \in inked : \A j \in inked : i >= j)

\* lookup_sources_bulk: the dict it may return, given as the list of its
\* values in insertion order.  The query "WHERE domain IN (...)" has no ORDER
\* BY, so the rows come in any order; a row is there once, however often its
\* domain is asked for, and a domain without a row has no entry.
lookup_sources_bulk(table, domains) ==
    LET found == {d \in DOMAIN table : \E i \in 1..Len(domains) : domains[i] = d}
        n == Cardinality(found)
        orders == {o \in [1..n -> found] : \A i, j \in 1..n : i # j => o[i] # o[j]}
    IN {[i \in 1..n |-> RowDict(table, o[i])] : o \in orders}

\* GET /sources?domains=...: the bulk branch of list_sources.  domains is the
\* query string, given as the list split(",") makes of it.
list_sources(table, domains, limit) ==
    LET domain_list == [i \in 1..Len(domains) |-> Strip(domains[i])]
    IN {[sources |-> result_dict,
         total |-> Len(result_dict),
         limit |-> limit,
         offset |-> 0,
         filters_applied |-> [domains |-> domain_list]] :
        result_dict \in lookup_sources_bulk(table, domain_list)}

\* POST /sources/score: the set of its possible responses.  The context of
\* a ScoreRequest is a plain dict, so "request.context.dict()" raises
\* AttributeError for every context that is truthy (not None, not {}), and
\* the request ends in an internal server error.
score_source(table, request) ==
    UNION {
        IF source = None
        THEN {[status |-> 200,
               body |-> Some([source |-> None, weighted_score |-> None,
                              scoring_breakdown |-> None, recommendation |-> None,
                              error |-> Some("Source not found")])]}
        ELSE IF ContextGiven(request.context)
        THEN {[status |-> 500, body |-> None]}
        ELSE LET scoring == score_source_for_context(source[1], None)
             IN {[status |-> 200,
                  body |-> Some([source |-> source,
                                 weighted_score |-> Some(scoring.weighted_score),
                                 scoring_breakdown |-> Some(scoring.scoring_breakdown),
                                 recommendation |-> Some(scoring.recommendation),
                                 error |-> None])]}
        : source \in lookup_source(table, request.domain)}

\* The number of rows of the table the endpoints are run on.
ApiSources == 2

ApiStoredDomains == {DomainPool[i] : i \in 1..Min(ApiSources, Len(DomainPool))}

ApiLeans == {None, Some(-1), Some(0), Some(1)}

ApiScores == {None, Some(Pts(70))}

ApiTypes == {None, Some("think_tank")}

\* min_credibility as the endpoints default it.
ApiMinCredibilityInputs == {60}

\* The query string preferred_leans of the counternarratives endpoint, split
\* at its commas: absent, "", "-1, 0" and "1,x".
PreferredStringInputs == {None, Some(<<"">>), Some(<<"-1", " 0">>), Some(<<"1", "x">>)}

Url(subdomain, registered, path) ==
    [subdomain |-> subdomain, registered |-> registered, path |-> path]

UrlInputs ==
    {Url(<<>>, <<"a", "b">>, <<>>), Url(<<"w">>, <<"a", "b">>, <<"p">>),
     Url(<<>>, <<"b">>, <<>>), Url(<<>>, <<"z">>, <<"p">>), Url(<<>>, <<>>, <<>>)}

AnalyzeRequests ==
    [url : UrlInputs,
     include_counternarratives : BOOLEAN,
     min_counternarrative_credibility : ApiMinCredibilityInputs,
     counternarrative_limit : LimitInputs,
     preferred_leans : {None, Some(<<-1, 0>>)}]

\* n URLs, by turns one of an unknown domain and one without a domain.
LongUrlList(n) ==
    [i \in 1..n |-> IF i % 2 = 1
                    THEN Url(<<>>, <<"z">>, <<"p">>)
                    ELSE Url(<<>>, <<>>, <<>>)]

\* The URL lists of the batch requests: the empty one, short ones (found,
\* unknown and invalid URLs mixed, one URL twice), one of 50 and one of 51.
UrlListInputs ==
    {<<>>,
     <<Url(<<>>, <<"a", "b">>, <<>>)>>,
     <<Url(<<>>, <<"z">>, <<"p">>), Url(<<>>, <<"a", "b">>, <<>>)>>,
     <<Url(<<>>, <<"a", "b">>, <<>>), Url(<<>>, <<"z">>, <<"p">>)>>,
     <<Url(<<>>, <<>>, <<>>), Url(<<>>, <<"b">>, <<>>),
       Url(<<"w">>, <<"a", "b">>, <<"p">>)>>,
     <<Url(<<>>, <<"a", "b">>, <<>>), Url(<<>>, <<"a", "b">>, <<>>)>>,
     LongUrlList(MaxBatchUrls),
     LongUrlList(MaxBatchUrls + 1)}

BatchOptionInputs ==
    {None} \cup {Some(o) : o \in {r \in AnalyzeRequests :
                                     /\ r.url = Url(<<>>, <<>>, <<>>)
                                     /\ r.counternarrative_limit = 1}}

BatchAnalyzeRequests == [urls : UrlListInputs, options : BatchOptionInputs]

\* The query string domains of the bulk lookup, split at its commas:
\* "ab", "abc, ab", "z,ab", "ab,ab" and "ab,abc".
DomainsStringInputs ==
    {<< <<"a", "b">> >>,
     << <<"a", "b", "c">>, <<" ", "a", "b">> >>,
     << <<"z">>, <<"a", "b">> >>,
     << <<"a", "b">>, <<"a", "b">> >>,
     << <<"a", "b">>, <<"a", "b", "c">> >>}

\* limit as list_sources defaults it.
ListLimitInputs == {100}

\* The contexts of the score requests: none, the empty dict, and dicts with
\* a claim type, an evidence role or both.
ScoreContextInputs ==
    {None} \cup {Some(c) : c \in {d \in ContextDicts :
                                     \A k \in DOMAIN d : d[k] \in {"political", "neutral"}}}

ScoreRequests == [domain : QueryDomains, context : ScoreContextInputs]

ApiInit ==
    /\ repo \in [ApiStoredDomains -> [political_lean : ApiLeans,
                                      newsguard_score : ApiScores,
                                      source_type : ApiTypes]]
    /\ op = "idle"
    /\ args = <<>>
    /\ ret = <<>>
    /\ NoContentRequest

GetCounternarratives ==
    /\ op = "idle"
    /\ \E domain \in QueryDomains, min_credibility \in ApiMinCredibilityInputs,
          limit \in LimitInputs,
          preferred_leans \in PreferredStringInputs :
           \E response \in get_counternarratives(repo, domain, min_credibility, limit,
                                                 preferred_leans) :
               /\ op' = "get_counternarratives"
               /\ args' = [domain |-> domain, min_credibility |-> min_credibility,
                           limit |-> limit, preferred_leans |-> preferred_leans]
               /\ ret' = response
               /\ UNCHANGED <<repo, contentVars>>

AnalyzeUrl ==
    /\ op = "idle"
    /\ \E request \in AnalyzeRequests :
           \E response \in analyze_url(repo, request) :
               /\ op' = "analyze_url"
               /\ args' = [request |-> request]
               /\ ret' = response
               /\ UNCHANGED <<repo, contentVars>>

AnalyzeBatch ==
    /\ op = "idle"
    /\ \E request \in BatchAnalyzeRequests :
           \E response \in analyze_batch(repo, request) :
               /\ op' = "analyze_batch"
               /\ args' = [request |-> request]
               /\ ret' = response
               /\ UNCHANGED <<repo, contentVars>>

ListSources ==
    /\ op = "idle"
    /\ \E domains \in DomainsStringInputs, limit \in ListLimitInputs :
           \E response \in list_sources(repo, domains, limit) :
               /\ op' = "list_sources"
               /\ args' = [domains |-> domains, limit |-> limit]
               /\ ret' = response
               /\ UNCHANGED <<repo, contentVars>>

ScoreSource ==
    /\ op = "idle"
    /\ \E request \in ScoreRequests :
           \E response \in score_source(repo, request) :
               /\ op' = "score_source"
               /\ args' = [request |-> request]
               /\ ret' = response
               /\ UNCHANGED <<repo, contentVars>>

ApiNext ==
    \/ GetCounternarratives
    \/ AnalyzeUrl
    \/ AnalyzeBatch
    \/ ListSources
    \/ ScoreSource

ApiSpec == ApiInit /\ [][ApiNext]_vars

\* C18 (as claimed): each counternarrative an endpoint returns carries the
\* weighted score of the scorer run with evidence_role = counternarrative and
\* the claim type of the caller, whichever that is, so that a think tank
\* returned to a caller with a political, economic or foreign_policy claim
\* has the +5 bonus.
C18_ScoredWithCallersClaimType ==
    LET counters == IF op = "get_counternarratives" /\ ret.status = 200
                    THEN ret.body[1].counternarratives
                    ELSE IF op = "analyze_url" /\ ret.counternarratives # None
                    THEN ret.counternarratives[1]
                    ELSE <<>>
    IN \A i \in 1..Len(counters) : \A claim_type \in ClaimTypes :
           /\ counters[i].weighted_score =
                  score_source_for_context(
                      counters[i],
                      Some([evidence_role |-> "counternarrative",
                            claim_type |-> claim_type])).weighted_score
           /\ ( /\ counters[i].source_type = Some("think_tank")
                /\ claim_type \in {"political", "economic", "foreign_policy"} )
              => counters[i].weighted_score =
                     Round1(Clamp(counters[i].newsguard_score[1] + Pts(5)))

\* C18 (amended): each counternarrative an endpoint returns carries the
\* weighted score of the scorer run with evidence_role = counternarrative and
\* claim_type = general: the endpoints take no claim type from the caller, so
\* a think tank has the +2 bonus whatever claim the caller works on.
C18_ScoredAsGeneralCounternarrative ==
    LET counters == IF op = "get_counternarratives" /\ ret.status = 200
                    THEN ret.body[1].counternarratives
                    ELSE IF op = "analyze_url" /\ ret.counternarratives # None
                    THEN ret.counternarratives[1]
                    ELSE <<>>
    IN \A i \in 1..Len(counters) :
           /\ counters[i].weighted_score =
                  score_source_for_context(
                      counters[i],
                      Some([evidence_role |-> "counternarrative",
                            claim_type |-> "general"])).weighted_score
           /\ counters[i].source_type = Some("think_tank")
              => counters[i].weighted_score =
                     Round1(Clamp(counters[i].newsguard_score[1] + Pts(2)))

\* A think tank rated 70 returned as a counternarrative with the score 72.
C18_ThinkTankGetsTwo ==
    /\ op = "get_counternarratives"
    /\ ret.status = 200
    /\ \E i \in 1..Len(ret.body[1].counternarratives) :
           /\ ret.body[1].counternarratives[i].source_type = Some("think_tank")
           /\ ret.body[1].counternarratives[i].newsguard_score = Some(Pts(70))
           /\ ret.body[1].counternarratives[i].weighted_score = Pts(72)

\* C20: a domain that matches no row of the table is answered as not found,
\* and that answer differs from the one for a found source without
\* counternarratives: the counternarratives endpoint answers 404 exactly
\* when no row matches and otherwise (its query string being well formed)
\* 200 with a list, empty or not; the analyze endpoint, for a valid URL,
\* answers source_found = false with no counternarratives list and an error
\* exactly when no row matches, and source_found = true with no error and,
\* when counternarratives are asked for, a list, empty or not, otherwise.
C20_NotFoundIsNotAnEmptyList ==
    /\ op = "get_counternarratives" =>
           LET matching == {d \in DOMAIN repo : Like(d, args.domain)}
           IN /\ ret.status = 404 <=> matching = {}
              /\ ret.status = 404 => ret.body = None
              /\ ret.status # 404 =>
                     IF PreferredString(args.preferred_leans)
                        /\ ParseFails(args.preferred_leans[1])
                     THEN ret.status = 400
                     ELSE /\ ret.status = 200
                          /\ ret.body # None
                          /\ ret.body[1].total = Len(ret.body[1].counternarratives)
    /\ (op = "analyze_url" /\ is_valid_url(args.request.url)) =>
           LET matching == {d \in DOMAIN repo :
                               Like(d, extract_domain(args.request.url))}
           IN /\ ret.source_found <=> matching # {}
              /\ ~ret.source_found =>
                     /\ ret.source = None
                     /\ ret.counternarratives = None
                     /\ ret.error = Some("Source not found in database")
              /\ ret.source_found =>
                     /\ ret.source # None
                     /\ ret.error = None
                     /\ ret.counternarratives # None
                            <=> args.request.include_counternarratives

\* The counternarratives endpoint asked for a domain no stored domain
\* contains: 404, where a stored source without a lean gets 200 and no source.
C20_UnknownDomainIs404 ==
    /\ op = "get_counternarratives"
    /\ args.domain = <<"z">>
    /\ args.preferred_leans = None
    /\ ret.status = 404
    /\ \E d \in DOMAIN repo :
           /\ repo[d].political_lean = None
           /\ [status |-> 200,
               body |-> Some([source_domain |-> d,
                              source |-> Some(RowDict(repo, d)),
                              counternarratives |-> <<>>,
                              total |-> 0])]
                  \in get_counternarratives(repo, d, args.min_credibility, args.limit,
                                            args.preferred_leans)

\* C21: a batch request of 1 to 50 URLs is answered with a results list as
\* long as the URL list, whose i-th element is an analysis of the i-th URL
\* under the request's options, whatever mix of valid, invalid, found and
\* unknown URLs the list is.
C21_BatchKeepsOrder ==
    op = "analyze_batch" =>
        LET urls == args.request.urls
            options == IF args.request.options = None
                       THEN [include_counternarratives |-> TRUE,
                             min_counternarrative_credibility |-> 60,
                             counternarrative_limit |-> 10,
                             preferred_leans |-> None]
                       ELSE args.request.options[1]
        IN Len(urls) \in 1..50 =>
               /\ ret.status = 200
               /\ Len(ret.body[1].results) = Len(urls)
               /\ \A i \in 1..Len(urls) :
                      /\ ret.body[1].results[i].url = urls[i]
                      /\ ret.body[1].results[i] \in
                             analyze_url(repo,
                                 [url |-> urls[i],
                                  include_counternarratives |->
                                      options.include_counternarratives,
                                  min_counternarrative_credibility |->
                                      options.min_counternarrative_credibility,
                                  counternarrative_limit |->
                                      options.counternarrative_limit,
                                  preferred_leans |-> options.preferred_leans])

\* An invalid URL, a URL of a domain found by substring and a URL of a stored
\* domain, analysed in that order.
C21_MixedListInOrder ==
    /\ op = "analyze_batch"
    /\ Len(args.request.urls) = 3
    /\ ret.status = 200
    /\ ret.body[1].results[1].error = Some("Invalid URL format")
    /\ ret.body[1].results[2].domain = <<"b">>
    /\ ret.body[1].results[2].source_found
    /\ ret.body[1].results[3].domain = <<"a", "b">>
    /\ ret.body[1].results[3].source # None

\* C25: analyze_batch answers an empty URL list and one of more than 50 URLs
\* with an error and no result, and every other list with total = the number
\* of URLs, successful = the number of results whose source was found and
\* that carry no error, and successful + failed = total.
C25_BatchCounts ==
    op = "analyze_batch" =>
        LET urls == args.request.urls
        IN /\ ret.status = 400 <=> (Len(urls) = 0 \/ Len(urls) > 50)
           /\ ret.status = 400 => ret.body = None
           /\ ret.status # 400 =>
                  /\ ret.status = 200
                  /\ ret.body[1].total = Len(urls)
                  /\ ret.body[1].successful + ret.body[1].failed = ret.body[1].total
                  /\ ret.body[1].successful =
                         Cardinality({i \in 1..Len(ret.body[1].results) :
                                         /\ ret.body[1].results[i].source_found
                                         /\ ret.body[1].results[i].error = None})

\* A list of exactly 50 URLs is accepted; none of its URLs has a source.
C25_FiftyUrlsAccepted ==
    /\ op = "analyze_batch"
    /\ Len(args.request.urls) = 50
    /\ ret.status = 200
    /\ ret.body[1].total = 50
    /\ ret.body[1].successful = 0
    /\ ret.body[1].failed = 50

\* C22 (as claimed): the bulk lookup answers a list of domains with a list
\* of sources of the same length, whose i-th element is the source of the
\* i-th domain asked for, also when a domain is unknown or asked for twice.
C22_BulkKeepsOrder ==
    op = "list_sources" =>
        /\ Len(ret.sources) = Len(args.domains)
        /\ \A i \in 1..Len(args.domains) :
               Strip(args.domains[i]) \in DOMAIN repo
                   => ret.sources[i].domain = Strip(args.domains[i])

\* C24 (as claimed): the score endpoint never raises; for a domain that
\* resolves to a source it answers with no error and with the weighted score,
\* the breakdown and the recommendation of score_source_for_context for that
\* source under the request's context, given or not; for a domain that does
\* not resolve it answers with an error and nothing else.
C24_ScoreEndpointAnswers ==
    op = "score_source" =>
        /\ ret.status = 200
        /\ IF \E d \in DOMAIN repo : Like(d, args.request.domain)
           THEN /\ ret.body[1].error = None
                /\ ret.body[1].source # None
                /\ LET scoring == score_source_for_context(ret.body[1].source[1],
                                                           args.request.context)
                   IN /\ ret.body[1].weighted_score = Some(scoring.weighted_score)
                      /\ ret.body[1].scoring_breakdown =
                             Some(scoring.scoring_breakdown)
                      /\ ret.body[1].recommendation = Some(scoring.recommendation)
           ELSE /\ ret.body[1].error # None
                /\ ret.body[1].source = None
                /\ ret.body[1].weighted_score = None
                /\ ret.body[1].scoring_breakdown = None
                /\ ret.body[1].recommendation = None

\* C27 (as claimed): in the counternarratives and the analyze endpoint the
\* source the response reports (the one lookup_source returned) is the one
\* whose lean the counternarratives oppose: when it has a non-zero lean every
\* returned counternarrative has a lean of the opposite sign, and when it has
\* no lean the list is empty.
C27_ReportedSourceIsInverted ==
    LET answered == \/ op = "get_counternarratives" /\ ret.status = 200
                    \/ op = "analyze_url" /\ ret.counternarratives # None
        reported == IF op = "get_counternarratives"
                    THEN ret.body[1].source[1]
                    ELSE ret.source[1]
        counters == IF op = "get_counternarratives"
                    THEN ret.body[1].counternarratives
                    ELSE ret.counternarratives[1]
    IN answered =>
           /\ reported.political_lean \notin {None, Some(0)} =>
                  \A i \in 1..Len(counters) :
                      counters[i].political_lean[1] * reported.political_lean[1] < 0
           /\ reported.political_lean = None => counters = <<>>

(***************************************************************************)
(* api/routes/content.py, api/content_fetcher.py, api/content_analyzer.py  *)
(* and api/usage_tracker.py: one content-analysis request, step by step.   *)
(* The two HTTP requests (to the reader and to the LLM service) are the    *)
(* points where the handler waits, and what comes back is any of the       *)
(* outcomes the client library can give.                                   *)
(*                                                                         *)
(* A text is held as its length, its length after strip() and its number   *)
(* of words.  calls is the list of the functions called so far, each with  *)
(* the content it was given.  usage_log is the api_usage_log table; the    *)
(* INSERT of log_api_usage is taken to succeed.                            *)
(***************************************************************************)

Text(chars, stripped_chars, words) ==
    [chars |-> chars, stripped_chars |-> stripped_chars, words |-> words]

EmptyText == Text(0, 0, 0)

\* The fewest characters of a fetched article that is not "too short".
MinContentChars == 200

ArticleContent(content, method, word_count, success, error) ==
    [content |-> content, method |-> method, word_count |-> word_count,
     success |-> success, error |-> error]

\* create_manual_content(url, content)
create_manual_content(content) ==
    ArticleContent(content, "manual", content.words, TRUE, None)

\* fetch_article_content, given what the GET to the reader came to.
fetch_article_content(outcome) ==
    IF outcome.kind = "timeout"
    THEN ArticleContent(EmptyText, "jina", 0, FALSE, Some("Request timed out"))
    ELSE IF outcome.kind = "exception"
    THEN ArticleContent(EmptyText, "jina", 0, FALSE, Some("Failed to fetch"))
    ELSE IF outcome.status_code # 200
    THEN ArticleContent(EmptyText, "jina", 0, FALSE, Some("Jina AI returned status"))
    ELSE IF outcome.text.stripped_chars < MinContentChars
    THEN ArticleContent(outcome.text, "jina", outcome.text.words, FALSE,
                        Some("Content too short - may be paywalled or blocked"))
    ELSE ArticleContent(outcome.text, "jina", outcome.text.words, TRUE, None)

ContentAnalysis(success, error, model_used, scores) ==
    [success |-> success, error |-> error, model_used |-> model_used,
     scores |-> scores]

UsageLog(model_used, success, error_message) ==
    [api_name |-> "openrouter", model_used |-> model_used, success |-> success,
     error_message |-> error_message]

\* analyze_content after the POST to the LLM service: the ContentAnalysis it
\* returns and the entries it logs, given what the POST came to.  The reply
\* of a 200 response is one of: a body that is not JSON or has no choices
\* (response.json() or the subscripts raise), a message text that is not
\* JSON, a JSON text that is no object (its .get raises), an analysis
\* without scores (each score defaults to 0) and a full analysis.
analyze_content_after_post(model, outcome) ==
    IF outcome.kind = "timeout"
    THEN [analysis |-> ContentAnalysis(FALSE, Some("Analysis request timed out"),
                                       Some(model), None),
          logged |-> <<UsageLog(model, FALSE, Some("Request timed out"))>>]
    ELSE IF outcome.kind = "exception"
    THEN [analysis |-> ContentAnalysis(FALSE, Some("Analysis failed"), Some(model),
                                       None),
          logged |-> <<UsageLog(model, FALSE, Some("exception"))>>]
    ELSE IF outcome.status_code # 200
    THEN [analysis |-> ContentAnalysis(FALSE, Some("OpenRouter API error"), None,
                                       None),
          logged |-> <<>>]
    ELSE IF outcome.reply \in {"body_not_json", "no_choices", "text_not_an_object"}
    THEN [analysis |-> ContentAnalysis(FALSE, Some("Analysis failed"), Some(model),
                                       None),
          logged |-> <<UsageLog(model, FALSE, Some("exception"))>>]
    ELSE IF outcome.reply = "text_not_json"
    THEN [analysis |-> ContentAnalysis(FALSE,
                                       Some("Failed to parse LLM response as JSON"),
                                       Some(model), None),
          logged |-> <<>>]
    ELSE [analysis |-> ContentAnalysis(TRUE, None, Some(model),
                                       Some(IF outcome.reply = "analysis_without_scores"
                                            THEN 0
                                            ELSE 7)),
          logged |-> <<UsageLog(model, TRUE, None)>>]

ContentAnalysisResponse(success, error, word_count, fetch_method, model_used) ==
    [status |-> 200,
     body |-> Some([success |-> success, error |-> error, word_count |-> word_count,
                    fetch_method |-> fetch_method, model_used |-> model_used])]

\* "if request.content" / "request.model or ...": None and "" are falsy.
ContentGiven(content) == content # None /\ content[1].chars > 0

ModelGiven(model) == model # None /\ model[1] # ""

TextInputs == {EmptyText, Text(1, 0, 0), Text(199, 199, 30), Text(201, 200, 30)}

ContentAnalysisRequests ==
    [url : {"u"},
     content : {None} \cup {Some(t) : t \in TextInputs},
     model : {None, Some(""), Some("m")}]

\* What the GET to the reader comes to.
FetchOutcomes ==
    [kind : {"timeout", "exception"}, status_code : {0}, text : {EmptyText}]
        \cup [kind : {"response"}, status_code : {404}, text : {EmptyText}]
        \cup [kind : {"response"}, status_code : {200}, text : TextInputs]

\* What the POST to the LLM service comes to.
PostOutcomes ==
    [kind : {"timeout", "exception"}, status_code : {0}, reply : {""}]
        \cup [kind : {"response"}, status_code : {500}, reply : {""}]
        \cup [kind : {"response"}, status_code : {200},
              reply : {"body_not_json", "no_choices", "text_not_json",
                       "text_not_an_object", "analysis_without_scores", "analysis"}]

ContentInit ==
    /\ repo = <<>>
    /\ op = "idle"
    /\ args = <<>>
    /\ ret = <<>>
    /\ pc = "idle"
    /\ usage_log = <<>>
    /\ calls = <<>>
    /\ locals = <<>>
    /\ settings \in [openrouter_api_key : {"", "key"},
                     default_analysis_model : {"anthropic/claude-sonnet-4"}]

Call(fn, content) == [fn |-> fn, content |-> content]

\* analyze_article up to its first await: Step 1.
AnalyzeArticle ==
    /\ pc = "idle"
    /\ op = "idle"
    /\ \E request \in ContentAnalysisRequests :
           /\ op' = "analyze_article"
           /\ args' = [request |-> request]
           /\ IF ContentGiven(request.content)
              THEN /\ calls' = Append(calls, Call("create_manual_content",
                                                  request.content))
                   /\ locals' = [article |->
                                     Some(create_manual_content(request.content[1])),
                                 model |-> None, analysis |-> None]
                   /\ pc' = "analyze"
              ELSE /\ calls' = Append(calls, Call("fetch_article_content", None))
                   /\ locals' = [article |-> None, model |-> None, analysis |-> None]
                   /\ pc' = "fetching"
    /\ UNCHANGED <<repo, ret, usage_log, settings>>

\* The fetch returning an article that failed, and the handler going on to
\* the analysis with it.
FetchReturnsGoesOn ==
    /\ pc = "fetching"
    /\ \E outcome \in FetchOutcomes :
           /\ locals' = [locals EXCEPT !.article = Some(fetch_article_content(outcome))]
           /\ pc' = "analyze"
    /\ UNCHANGED <<repo, op, args, ret, usage_log, calls, settings>>

\* fetch_article_content returns; a failed fetch is answered at once.
FetchReturns ==
    /\ pc = "fetching"
    /\ \E outcome \in FetchOutcomes :
           LET article == fetch_article_content(outcome)
           IN /\ locals' = [locals EXCEPT !.article = Some(article)]
              /\ IF ~article.success
                 THEN /\ ret' = ContentAnalysisResponse(
                                    FALSE,
                                    Some(<<"Failed to fetch article: ", article.error[1]>>),
                                    None, Some(article.method), None)
                      /\ pc' = "done"
                 ELSE /\ ret' = ret
                      /\ pc' = "analyze"
    /\ UNCHANGED <<repo, op, args, usage_log, calls, settings>>

\* Step 2: analyze_content is called; without an API key it returns at once,
\* with one it sends the POST and waits.
AnalyzeContent ==
    /\ pc = "analyze"
    /\ LET model == IF ModelGiven(args.request.model)
                    THEN args.request.model[1]
                    ELSE settings.default_analysis_model
           called == Append(calls, Call("analyze_content",
                                        Some(locals.article[1].content)))
       IN IF settings.openrouter_api_key = ""
          THEN /\ locals' = [locals EXCEPT
                                 !.model = Some(model),
                                 !.analysis =
                                     Some(ContentAnalysis(
                                              FALSE,
                                              Some("OpenRouter API key not configured"),
                                              None, None))]
               /\ calls' = called
               /\ pc' = "analysed"
          ELSE /\ locals' = [locals EXCEPT !.model = Some(model)]
               /\ calls' = Append(called, Call("post", None))
               /\ pc' = "posting"
    /\ UNCHANGED <<repo, op, args, ret, usage_log, settings>>

\* The POST is over and analyze_content returns.
PostReturns ==
    /\ pc = "posting"
    /\ \E outcome \in PostOutcomes :
           LET after == analyze_content_after_post(locals.model[1], outcome)
           IN /\ usage_log' = usage_log \o after.logged
              /\ locals' = [locals EXCEPT !.analysis = Some(after.analysis)]
    /\ pc' = "analysed"
    /\ UNCHANGED <<repo, op, args, ret, calls, settings>>

\* The rest of analyze_article: the failure response, or Step 3.  A score
\* of 0 does not validate as an AnalysisScoresResponse and the request fails.
BuildResponse ==
    /\ pc = "analysed"
    /\ LET article == locals.article[1]
           analysis == locals.analysis[1]
       IN ret' = IF ~analysis.success
                 THEN ContentAnalysisResponse(FALSE, Some(<<analysis.error[1]>>),
                                              Some(article.word_count),
                                              Some(article.method), locals.model)
                 ELSE IF analysis.scores = Some(0)
                 THEN [status |-> 500, body |-> None]
                 ELSE ContentAnalysisResponse(TRUE, None, Some(article.word_count),
                                              Some(article.method),
                                              analysis.model_used)
    /\ pc' = "done"
    /\ UNCHANGED <<repo, op, args, usage_log, calls, locals, settings>>

ContentNext ==
    \/ AnalyzeArticle
    \/ FetchReturns
    \/ AnalyzeContent
    \/ PostReturns
    \/ BuildResponse

ContentSpec == ContentInit /\ [][ContentNext]_vars

\* Whether analyze_article has called the function fn so far.
Called(fn) == \E i \in 1..Len(calls) : calls[i].fn = fn

\* C26: the steps of the content-analysis endpoint are ordered and gated.
\* With content in the request the fetcher is never called and
\* analyze_content is given the request's content; without it the first
\* call is the fetcher, and after a failed fetch analyze_content is never
\* called and the response has success = false with the fetch error; a
\* response with success = true comes only after an analysis that reported
\* success.
C26_StepsOrderedAndGated ==
    op = "analyze_article" =>
        LET request == args.request
            given == ContentGiven(request.content)
            fetched == locals.article # None /\ locals.article[1].method = "jina"
        IN /\ given =>
                  /\ ~Called("fetch_article_content")
                  /\ \A i \in 1..Len(calls) :
                         calls[i].fn = "analyze_content"
                             => calls[i].content = request.content
           /\ ~given => calls[1].fn = "fetch_article_content"
           /\ (fetched /\ ~locals.article[1].success) =>
                  /\ ~Called("analyze_content")
                  /\ ~Called("post")
                  /\ pc = "done"
                  /\ ret.status = 200
                  /\ ret.body[1].success = FALSE
                  /\ ret.body[1].error =
                         Some(<<"Failed to fetch article: ",
                                locals.article[1].error[1]>>)
           /\ (pc = "done" /\ ret.status = 200 /\ ret.body[1].success) =>
                  /\ Called("analyze_content")
                  /\ locals.analysis # None
                  /\ locals.analysis[1].success

\* A request without content whose fetch came back too short: answered
\* with the fetch error, analyze_content never called.
C26_FailedFetchAnswered ==
    /\ op = "analyze_article"
    /\ pc = "done"
    /\ args.request.content = None
    /\ calls = <<Call("fetch_article_content", None)>>
    /\ locals.article # None
    /\ ~locals.article[1].success
    /\ ret.body[1].success = FALSE

\* C30: every call of analyze_content that sends the POST to the LLM
\* service leaves exactly one usage-log entry whose success flag is that
\* of the ContentAnalysis it returns, whatever the outcome of the POST; a
\* call that returns for want of an API key leaves none.
C30_OneLogEntryPerPost ==
    (op = "analyze_article" /\ locals.analysis # None) =>
        IF Called("post")
        THEN /\ Len(usage_log) = 1
             /\ usage_log[1].success = locals.analysis[1].success
        ELSE usage_log = <<>>

====
